---- MODULE Spec2Model ----
(***************************************************************************)
(* Model of the fungible token ledger (pallets/token/fungible/src/lib.rs)   *)
(* and of the non-fungible token precompile                                *)
(* (precompiles/src/token_non_fungible.rs).                                *)
(*                                                                         *)
(* Storage writes are modelled as the pallet performs them: every          *)
(* try_mutate whose closure returns Ok writes its value at once, and an    *)
(* error returned later by the same dispatchable does not undo it (the     *)
(* dispatchables carry no #[transactional] attribute and this FRAME        *)
(* version, which still has #[pallet::metadata], does not wrap calls in a  *)
(* storage transaction).                                                   *)
(***************************************************************************)
EXTENDS Integers, Sequences, FiniteSets, TLC

\* ---------------------------------------------------------------- bounds
\* Largest value of Balance (u128 in the source), scaled down.
BalanceMax == 2
\* Largest value of FungibleTokenId, scaled down.
TokenIdMax == 2
\* Native currency every account starts with.
InitFree == 2
\* Number of storage-changing calls before the recorded call.
MaxSteps == 4
\* Sum of the allowances granted before the recorded call.
MaxGranted == 1
\* Number of values of a byte (256 in the source), scaled down.
ByteBase == 2
\* Largest non-fungible token id and largest item id the precompile is called
\* with.
NfIdMax == 1
ItemMax == 1

\* ------------------------------------------------------- program constants
StringLimit == 1
CreateTokenDeposit == 1

\* ------------------------------------------------------------ input sets
Accounts == {"a1", "a2"}
Ids == 0 .. TokenIdMax
Amounts == 0 .. BalanceMax
\* byte strings of length 0 .. StringLimit + 1
RECURSIVE Bytes(_)
Bytes(n) == IF n = 0 THEN <<>> ELSE Append(Bytes(n - 1), 71)
Strings == {Bytes(n) : n \in 0 .. StringLimit + 1}
\* the (name, symbol) pairs create_token is called with: both of StringLimit
\* bytes, or at least one longer than StringLimit
MetaInputs == {m \in Strings \X Strings : Len(m[1]) + Len(m[2]) >= StringLimit + 1}
Decimals == {8}

None == -1
NoToken == [owner |-> "none"]

VARIABLES Tokens, NextTokenId, Balances, Allowances, free, reserved,
          last, pre, steps, created, saturated, granted, moved,
          nft, dlast, dpre

\* the variables of the fungible ledger and of the precompile
fvars == <<Tokens, NextTokenId, Balances, Allowances, free, reserved,
           last, pre, steps, created, saturated, granted, moved>>
dvars == <<nft, dlast, dpre>>
vars == <<fvars, dvars>>

\* The storage as one value.
State ==
  [Tokens |-> Tokens, NextTokenId |-> NextTokenId, Balances |-> Balances,
   Allowances |-> Allowances, free |-> free, reserved |-> reserved]

\* ----------------------------------------------------------- arithmetic
checked_add(a, b) == IF a + b > BalanceMax THEN None ELSE a + b
checked_sub(a, b) == IF a < b THEN None ELSE a - b
saturating_add(a, b) == IF a + b > BalanceMax THEN BalanceMax ELSE a + b
saturating_sub(a, b) == IF a < b THEN 0 ELSE a - b

exists(st, id) == st.Tokens[id] # NoToken

\* ------------------------------------------------------------- helpers
\* increase_balance that keys the balance by the account alone (token 0)
increase_balance_any_id(st, id, to, amount) ==
  LET nb == checked_add(st.Balances[0][to], amount) IN
  IF nb = None THEN [st |-> st, res |-> "NumOverflow"]
  ELSE [st |-> [st EXCEPT !.Balances[0][to] = nb], res |-> "Ok"]

increase_balance(st, id, to, amount) ==
  LET nb == checked_add(st.Balances[id][to], amount) IN
  IF nb = None THEN [st |-> st, res |-> "NumOverflow"]
  ELSE [st |-> [st EXCEPT !.Balances[id][to] = nb], res |-> "Ok"]

decrease_balance(st, id, from, amount) ==
  LET nb == checked_sub(st.Balances[id][from], amount) IN
  IF nb = None THEN [st |-> st, res |-> "NumOverflow"]
  ELSE [st |-> [st EXCEPT !.Balances[id][from] = nb], res |-> "Ok"]

\* maybe_check_permission without the comparison with the owner
maybe_check_permission_any(st, id, who) ==
  IF st.Tokens[id] = NoToken THEN "InvalidId" ELSE "Ok"

maybe_check_permission(st, id, who) ==
  IF st.Tokens[id] = NoToken THEN "InvalidId"
  ELSE IF who # st.Tokens[id].owner THEN "NoPermission"
  ELSE "Ok"

\* do_transfer that credits the recipient without debiting the sender
do_transfer_nodebit(st, id, sender, recipient, amount) ==
  IF st.Balances[id][sender] < amount THEN [st |-> st, res |-> "NumOverflow"]
  ELSE increase_balance(st, id, recipient, amount)

do_transfer(st, id, sender, recipient, amount) ==
  LET d == decrease_balance(st, id, sender, amount) IN
  IF d.res # "Ok" THEN d
  ELSE increase_balance(d.st, id, recipient, amount)

\* do_mint that leaves total_supply as it was
do_mint_keep_supply(st, id, account, amount) ==
  IF st.Tokens[id] = NoToken THEN [st |-> st, res |-> "Unknown"]
  ELSE increase_balance(st, id, account, amount)

do_mint(st, id, account, amount) ==
  IF st.Tokens[id] = NoToken THEN [st |-> st, res |-> "Unknown"]
  ELSE LET i == increase_balance(st, id, account, amount) IN
       IF i.res # "Ok" THEN i
       ELSE [st |-> [i.st EXCEPT !.Tokens[id].total_supply =
                        saturating_add(st.Tokens[id].total_supply, amount)],
             res |-> "Ok"]

\* do_burn that leaves total_supply as it was
do_burn_keep_supply(st, id, account, amount) ==
  IF st.Tokens[id] = NoToken THEN [st |-> st, res |-> "Unknown"]
  ELSE decrease_balance(st, id, account, amount)

do_burn(st, id, account, amount) ==
  IF st.Tokens[id] = NoToken THEN [st |-> st, res |-> "Unknown"]
  ELSE LET d == decrease_balance(st, id, account, amount) IN
       IF d.res # "Ok" THEN d
       ELSE [st |-> [d.st EXCEPT !.Tokens[id].total_supply =
                        saturating_sub(st.Tokens[id].total_supply, amount)],
             res |-> "Ok"]

\* Currency::reserve of the native currency collaborator
reserve(st, who, value) ==
  IF st.free[who] < value THEN [st |-> st, res |-> "InsufficientBalance"]
  ELSE [st |-> [st EXCEPT !.free[who] = @ - value, !.reserved[who] = @ + value],
        res |-> "Ok"]

\* do_create_token that stores the token without advancing NextTokenId
do_create_token_reuse(st, who, name, symbol, decimals) ==
  LET r == reserve(st, who, CreateTokenDeposit) IN
  IF r.res # "Ok" THEN [st |-> st, res |-> r.res, id |-> None]
  ELSE IF Len(name) > StringLimit \/ Len(symbol) > StringLimit
    THEN [st |-> r.st, res |-> "BadMetadata", id |-> None]
  ELSE IF r.st.NextTokenId + 1 > TokenIdMax
    THEN [st |-> r.st, res |-> "NoAvailableTokenId", id |-> None]
  ELSE LET id == r.st.NextTokenId IN
       [st |-> [r.st EXCEPT !.Tokens[id] = [owner |-> who, name |-> name,
                                            symbol |-> symbol,
                                            decimals |-> decimals,
                                            total_supply |-> 0]],
        res |-> "Ok", id |-> id]

do_create_token(st, who, name, symbol, decimals) ==
  LET r == reserve(st, who, CreateTokenDeposit) IN
  IF r.res # "Ok" THEN [st |-> st, res |-> r.res, id |-> None]
  ELSE IF Len(name) > StringLimit \/ Len(symbol) > StringLimit
    THEN [st |-> r.st, res |-> "BadMetadata", id |-> None]
  ELSE IF r.st.NextTokenId + 1 > TokenIdMax
    THEN [st |-> r.st, res |-> "NoAvailableTokenId", id |-> None]
  ELSE LET id == r.st.NextTokenId IN
       [st |-> [r.st EXCEPT !.NextTokenId = id + 1,
                            !.Tokens[id] = [owner |-> who, name |-> name,
                                            symbol |-> symbol,
                                            decimals |-> decimals,
                                            total_supply |-> 0]],
        res |-> "Ok", id |-> id]

\* ------------------------------------------------- dispatchables (pure)
\* approve that sets the allowance to amount instead of adding to it
approve_call_overwrite(st, id, who, spender, amount) ==
  LET na == checked_add(0, amount) IN
  IF na = None THEN [st |-> st, res |-> "NumOverflow"]
  ELSE [st |-> [st EXCEPT !.Allowances[id][<<who, spender>>] = na], res |-> "Ok"]

approve_call(st, id, who, spender, amount) ==
  LET na == checked_add(st.Allowances[id][<<who, spender>>], amount) IN
  IF na = None THEN [st |-> st, res |-> "NumOverflow"]
  ELSE [st |-> [st EXCEPT !.Allowances[id][<<who, spender>>] = na], res |-> "Ok"]

transfer_call(st, id, who, recipient, amount) ==
  do_transfer(st, id, who, recipient, amount)

\* transfer_from whose allowance decrement saturates instead of failing
transfer_from_call_saturating(st, id, who, sender, recipient, amount) ==
  LET na == saturating_sub(st.Allowances[id][<<sender, who>>], amount) IN
  do_transfer([st EXCEPT !.Allowances[id][<<sender, who>>] = na],
              id, sender, recipient, amount)

\* transfer_from that checks the allowance but leaves it as it was
transfer_from_call_keep_allowance(st, id, who, sender, recipient, amount) ==
  LET na == checked_sub(st.Allowances[id][<<sender, who>>], amount) IN
  IF na = None THEN [st |-> st, res |-> "NumOverflow"]
  ELSE do_transfer(st, id, sender, recipient, amount)

transfer_from_call(st, id, who, sender, recipient, amount) ==
  LET na == checked_sub(st.Allowances[id][<<sender, who>>], amount) IN
  IF na = None THEN [st |-> st, res |-> "NumOverflow"]
  ELSE do_transfer([st EXCEPT !.Allowances[id][<<sender, who>>] = na],
                   id, sender, recipient, amount)

mint_call(st, id, who, account, amount) ==
  LET p == maybe_check_permission(st, id, who) IN
  IF p # "Ok" THEN [st |-> st, res |-> p]
  ELSE do_mint(st, id, account, amount)

\* burn that removes the Token record once nothing of it is left
burn_call_remove_empty(st, id, who, amount) ==
  LET b == do_burn(st, id, who, amount) IN
  IF b.res = "Ok" /\ b.st.Tokens[id].total_supply = 0
  THEN [st |-> [b.st EXCEPT !.Tokens[id] = NoToken], res |-> "Ok"]
  ELSE b

burn_call(st, id, who, amount) ==
  do_burn(st, id, who, amount)

total_supply_call(st, id) ==
  IF st.Tokens[id] = NoToken THEN [res |-> "InvalidId", value |-> None]
  ELSE [res |-> "Ok", value |-> st.Tokens[id].total_supply]

\* ---------------------------------------------------------------- Init
NoCall ==
  [op |-> "none", id |-> None, who |-> "none", from |-> "none", to |-> "none",
   amount |-> 0, name |-> <<>>, symbol |-> <<>>, res |-> "Ok", value |-> None]

\* The non-fungible ledger: the token registry and the owner of every item.
NfIds == 0 .. NfIdMax
Items == 0 .. ItemMax
NoNfToken == [owner |-> "none"]
NfEmpty ==
  [Tokens |-> [i \in NfIds |-> NoNfToken],
   Owners |-> [i \in NfIds |-> [t \in Items |-> "none"]]]

\* No call of the precompile recorded yet.
NoDispatch ==
  [op |-> "none", address |-> <<>>, id |-> None,
   input |-> [sel |-> "short", args |-> <<>>], caller |-> "none",
   is_static |-> FALSE, out |-> [kind |-> "None", value |-> None],
   trace |-> <<>>]

Init ==
  /\ nft = NfEmpty
  /\ dlast = NoDispatch
  /\ dpre = NfEmpty
  /\ Tokens = [i \in Ids |-> NoToken]
  /\ NextTokenId = 0
  /\ Balances = [i \in Ids |-> [a \in Accounts |-> 0]]
  /\ Allowances = [i \in Ids |-> [p \in Accounts \X Accounts |-> 0]]
  /\ free = [a \in Accounts |-> InitFree]
  /\ reserved = [a \in Accounts |-> 0]
  /\ last = NoCall
  /\ pre = State
  /\ steps = 0
  /\ created = {}
  /\ saturated = {}
  /\ granted = [i \in Ids |-> [p \in Accounts \X Accounts |-> 0]]
  /\ moved = [i \in Ids |-> [p \in Accounts \X Accounts |-> 0]]

\* The sum of all allowances of the storage st.
RECURSIVE SumOver(_, _)
SumOver(f, S) ==
  IF S = {} THEN 0
  ELSE LET x == CHOOSE y \in S : TRUE IN f[x] + SumOver(f, S \ {x})
Granted(st) ==
  LET slots == Ids \X (Accounts \X Accounts) IN
  SumOver([s \in slots |-> st.Allowances[s[1]][s[2]]], slots)

\* the call is a mint that takes total_supply past BalanceMax
Saturates(call) ==
  /\ call.op = "mint"
  /\ call.res = "Ok"
  /\ Tokens[call.id].total_supply + call.amount > BalanceMax

\* One call: the storage becomes st.  A run is at most MaxSteps calls followed
\* by one recorded call: last is the recorded call, pre the storage it started
\* from and created the ids the create_token calls before it returned;
\* saturated holds the ids whose total_supply a mint has saturated so far;
\* granted[id][<<A, B>>] is the sum of the amounts of the accepted approve
\* calls of A for B, moved[id][<<A, B>>] the sum of the amounts of the accepted
\* transfer_from calls of B out of A's balance.
Commit(st, call) ==
  /\ last = NoCall
  /\ UNCHANGED dvars
  /\ granted' = IF call.op = "approve" /\ call.res = "Ok"
                THEN [granted EXCEPT ![call.id][<<call.who, call.to>>] = @ + call.amount]
                ELSE granted
  /\ moved' = IF call.op = "transfer_from" /\ call.res = "Ok"
              THEN [moved EXCEPT ![call.id][<<call.from, call.who>>] = @ + call.amount]
              ELSE moved
  /\ saturated' = IF Saturates(call) THEN saturated \cup {call.id} ELSE saturated
  /\ Tokens' = st.Tokens
  /\ NextTokenId' = st.NextTokenId
  /\ Balances' = st.Balances
  /\ Allowances' = st.Allowances
  /\ free' = st.free
  /\ reserved' = st.reserved
  /\ \/ /\ steps < MaxSteps
        /\ st # State
        /\ Granted(st) <= MaxGranted
        /\ steps' = steps + 1
        /\ created' = IF call.op = "create_token" /\ call.res = "Ok"
                      THEN created \cup {call.id} ELSE created
        /\ UNCHANGED <<last, pre>>
     \/ /\ last' = call
        /\ pre' = State
        /\ UNCHANGED <<steps, created>>

\* -------------------------------------------------------------- actions
create_token ==
  \E who \in Accounts, m \in MetaInputs, decimals \in Decimals :
    LET r == do_create_token(State, who, m[1], m[2], decimals) IN
    Commit(r.st, [NoCall EXCEPT !.op = "create_token", !.who = who,
                                !.name = m[1], !.symbol = m[2],
                                !.res = r.res, !.id = r.id, !.value = r.id])

approve ==
  \E id \in Ids, who \in Accounts, spender \in Accounts, amount \in Amounts :
    LET r == approve_call(State, id, who, spender, amount) IN
    Commit(r.st, [NoCall EXCEPT !.op = "approve", !.id = id, !.who = who,
                                !.from = who, !.to = spender,
                                !.amount = amount, !.res = r.res])

transfer ==
  \E id \in Ids, who \in Accounts, recipient \in Accounts, amount \in Amounts :
    LET r == transfer_call(State, id, who, recipient, amount) IN
    Commit(r.st, [NoCall EXCEPT !.op = "transfer", !.id = id, !.who = who,
                                !.from = who, !.to = recipient,
                                !.amount = amount, !.res = r.res])

transfer_from ==
  \E id \in Ids, who \in Accounts, sender \in Accounts,
     recipient \in Accounts, amount \in Amounts :
    LET r == transfer_from_call(State, id, who, sender, recipient, amount) IN
    Commit(r.st, [NoCall EXCEPT !.op = "transfer_from", !.id = id, !.who = who,
                                !.from = sender, !.to = recipient,
                                !.amount = amount, !.res = r.res])

mint ==
  \E id \in Ids, who \in Accounts, account \in Accounts, amount \in Amounts :
    LET r == mint_call(State, id, who, account, amount) IN
    Commit(r.st, [NoCall EXCEPT !.op = "mint", !.id = id, !.who = who,
                                !.to = account,
                                !.amount = amount, !.res = r.res])

burn ==
  \E id \in Ids, who \in Accounts, amount \in Amounts :
    LET r == burn_call(State, id, who, amount) IN
    Commit(r.st, [NoCall EXCEPT !.op = "burn", !.id = id, !.who = who,
                                !.from = who,
                                !.amount = amount, !.res = r.res])

total_supply ==
  \E id \in Ids :
    LET r == total_supply_call(State, id) IN
    Commit(State, [NoCall EXCEPT !.op = "total_supply", !.id = id,
                                 !.res = r.res, !.value = r.value])

Next ==
  \/ create_token
  \/ approve
  \/ transfer
  \/ transfer_from
  \/ mint
  \/ burn
  \/ total_supply

Spec == Init /\ [][Next]_vars

\* ------------------------------------------------------- recorded call
Called(op) == last.op = op
Recorded == last.op # "none"
PreToken == pre.Tokens[last.id]
PreAllowance(owner, spender) == pre.Allowances[last.id][<<owner, spender>>]
PreBalance(a) == pre.Balances[last.id][a]
\* the recorded call left the whole storage as it was
NoEffect == State = pre

\* ------------------------------------------------------------------ C1
\* The balance transfer step of the recorded transfer_from fails: the sender
\* holds less than amount, or the recipient's balance (after the sender's
\* debit) plus amount exceeds BalanceMax.
TransferStepFails ==
  \/ PreBalance(last.from) < last.amount
  \/ (IF last.to = last.from THEN PreBalance(last.to) - last.amount
      ELSE PreBalance(last.to)) + last.amount > BalanceMax

\* C1: a transfer_from whose allowance covers amount but whose balance
\* transfer step fails reports a failure and leaves the (sender, caller)
\* allowance and all balances as they were before the call.
C1_TransferFromRollsBack ==
  (/\ Called("transfer_from")
   /\ PreAllowance(last.from, last.who) >= last.amount
   /\ TransferStepFails)
  => /\ last.res # "Ok"
     /\ Allowances[last.id][<<last.from, last.who>>]
          = PreAllowance(last.from, last.who)
     /\ Balances = pre.Balances

\* ------------------------------------------------------------------ C2
LedgerOps == {"approve", "transfer", "transfer_from", "mint", "burn", "total_supply"}

\* C2: every balance, allowance and supply operation called with a token id
\* that has no Token record fails, whatever the caller, accounts and amount,
\* and leaves the balances and allowances under that id unchanged.
C2_InvalidIdFails ==
  (last.op \in LedgerOps /\ PreToken = NoToken)
  => /\ last.res # "Ok"
     /\ Balances[last.id] = pre.Balances[last.id]
     /\ Allowances[last.id] = pre.Allowances[last.id]

\* ------------------------------------------------------------------ C3
\* C3: a transfer_from whose amount exceeds the (sender, caller) allowance
\* fails with NumOverflow and leaves that allowance, every balance and every
\* total_supply as they were.
C3_TransferFromOverAllowance ==
  (Called("transfer_from") /\ last.amount > PreAllowance(last.from, last.who))
  => /\ last.res = "NumOverflow"
     /\ Allowances = pre.Allowances
     /\ Balances = pre.Balances
     /\ Tokens = pre.Tokens

\* A spender asked for more than a non-zero allowance, of a sender who holds
\* the amount, on an existing token, and the call was refused.
C3_Witness ==
  /\ Called("transfer_from")
  /\ PreToken # NoToken
  /\ last.who # last.from
  /\ PreAllowance(last.from, last.who) > 0
  /\ last.amount > PreAllowance(last.from, last.who)
  /\ PreBalance(last.from) >= last.amount
  /\ last.res = "NumOverflow"

\* ------------------------------------------------------------------ C4
\* C4: approve adds to the allowance.  A recorded approve(id, A, B, amt1)
\* either fails with NumOverflow, exactly when the sum exceeds BalanceMax, and
\* changes nothing, or succeeds and leaves the allowance at its old value plus
\* amt1; and every approve(id, A, B, amt2) that then succeeds leaves it at the
\* old value plus amt1 + amt2.
C4_ApproveAdditive ==
  Called("approve") =>
    LET old == PreAllowance(last.who, last.to) IN
    IF old + last.amount > BalanceMax
    THEN last.res = "NumOverflow" /\ NoEffect
    ELSE /\ last.res = "Ok"
         /\ Allowances[last.id][<<last.who, last.to>>] = old + last.amount
         /\ \A amt2 \in Amounts :
              LET second == approve_call(State, last.id, last.who, last.to, amt2) IN
              IF old + last.amount + amt2 > BalanceMax
              THEN second.res = "NumOverflow" /\ second.st = State
              ELSE /\ second.res = "Ok"
                   /\ second.st.Allowances[last.id][<<last.who, last.to>>]
                        = old + last.amount + amt2

\* Two approvals of a non-zero amount for the same pair, both accepted.
C4_Witness ==
  /\ Called("approve")
  /\ last.res = "Ok"
  /\ last.amount > 0
  /\ \E amt2 \in Amounts :
       /\ amt2 > 0
       /\ LET second == approve_call(State, last.id, last.who, last.to, amt2) IN
          /\ second.res = "Ok"
          /\ second.st.Allowances[last.id][<<last.who, last.to>>] # amt2
          /\ second.st.Allowances[last.id][<<last.who, last.to>>]
               = PreAllowance(last.who, last.to) + last.amount + amt2

\* ------------------------------------------------------------------ C5
\* burn(id, A, amt) called right after the recorded mint(id, A, amt)
BurnAfterMint == burn_call(State, last.id, last.to, last.amount)

\* C5 as stated: after every successful mint(id, A, amt), also one that takes
\* total_supply to its largest value, burn(id, A, amt) succeeds and restores
\* total_supply(id) and A's balance to their values before the mint.
C5_MintBurnRestoresAlways ==
  (Called("mint") /\ last.res = "Ok")
  => /\ BurnAfterMint.res = "Ok"
     /\ BurnAfterMint.st.Tokens[last.id].total_supply = PreToken.total_supply
     /\ BurnAfterMint.st.Balances[last.id][last.to] = PreBalance(last.to)

\* C5, amended: after every successful mint(id, A, amt), burn(id, A, amt)
\* succeeds and restores A's balance; it restores total_supply(id) when
\* total_supply + amt did not exceed BalanceMax at the mint, and leaves it
\* below its value before the mint otherwise.
C5_MintBurnRestoresUnsaturated ==
  (Called("mint") /\ last.res = "Ok")
  => /\ BurnAfterMint.res = "Ok"
     /\ BurnAfterMint.st.Balances[last.id][last.to] = PreBalance(last.to)
     /\ IF PreToken.total_supply + last.amount <= BalanceMax
        THEN BurnAfterMint.st.Tokens[last.id].total_supply = PreToken.total_supply
        ELSE BurnAfterMint.st.Tokens[last.id].total_supply < PreToken.total_supply

\* A mint of a non-zero amount on top of a non-zero supply, undone by the burn.
C5_Witness ==
  /\ Called("mint")
  /\ last.res = "Ok"
  /\ last.amount > 0
  /\ PreToken.total_supply > 0
  /\ Tokens[last.id].total_supply = PreToken.total_supply + last.amount
  /\ BurnAfterMint.res = "Ok"
  /\ BurnAfterMint.st.Tokens[last.id].total_supply = PreToken.total_supply

\* ------------------------------------------------------------------ C6
\* transfer(id, B, A, amt) called right after the recorded transfer(id, A, B, amt)
TransferBack == transfer_call(State, last.id, last.to, last.from, last.amount)

\* C6 as stated: for every amt up to A's balance, transfer(id, A, B, amt)
\* followed by transfer(id, B, A, amt) leaves the balances of A and B at their
\* values before the first transfer.
C6_TransferBackRestoresAlways ==
  (Called("transfer") /\ last.amount <= PreBalance(last.from))
  => /\ TransferBack.st.Balances[last.id][last.from] = PreBalance(last.from)
     /\ TransferBack.st.Balances[last.id][last.to] = PreBalance(last.to)

\* C6, amended: whenever transfer(id, A, B, amt) succeeds, the following
\* transfer(id, B, A, amt) succeeds too and leaves every balance at its value
\* before the first transfer (A = B included).
C6_TransferBackRestoresIfAccepted ==
  (Called("transfer") /\ last.res = "Ok")
  => /\ last.amount <= PreBalance(last.from)
     /\ TransferBack.res = "Ok"
     /\ TransferBack.st.Balances = pre.Balances

\* A non-zero amount moved between two different accounts and moved back.
C6_Witness ==
  /\ Called("transfer")
  /\ last.res = "Ok"
  /\ last.amount > 0
  /\ last.from # last.to
  /\ Balances[last.id][last.to] = PreBalance(last.to) + last.amount
  /\ TransferBack.res = "Ok"
  /\ TransferBack.st.Balances = pre.Balances

\* ------------------------------------------------------------------ C7
\* the sum of the balances under id in the storage st
TotalBalance(st, id) == SumOver(st.Balances[id], Accounts)

\* the recorded call was made by the owner of token id
ByOwnerOf(id) == pre.Tokens[id] # NoToken /\ last.who = pre.Tokens[id].owner

\* a mint on an existing token succeeds only for the owner, and for anyone
\* else fails with NoPermission and changes no balance and no total_supply
MintNeedsOwner ==
  (Called("mint") /\ PreToken # NoToken)
  => /\ last.res = "Ok" => last.who = PreToken.owner
     /\ last.who # PreToken.owner
          => /\ last.res = "NoPermission"
             /\ Balances = pre.Balances
             /\ Tokens = pre.Tokens

\* C7 as stated: mint needs the owner, and no total_supply and no balance of
\* a token ever increases in a call made by anyone but the token's owner.
C7_OnlyOwnerIncreasesAnyBalance ==
  /\ MintNeedsOwner
  /\ Recorded => \A id \in Ids :
       /\ (Tokens[id] # NoToken /\ pre.Tokens[id] # NoToken
           /\ Tokens[id].total_supply > pre.Tokens[id].total_supply)
            => ByOwnerOf(id)
       /\ \A a \in Accounts :
            Balances[id][a] > pre.Balances[id][a] => ByOwnerOf(id)

\* C7, amended: mint needs the owner, and the total_supply of a token and the
\* sum of its balances increase only in a mint called by the token's owner
\* (one account's balance also increases when it receives a transfer or
\* transfer_from, whoever calls it).
C7_OnlyOwnerMintIncreasesSupply ==
  /\ MintNeedsOwner
  /\ Recorded => \A id \in Ids :
       /\ (Tokens[id] # NoToken /\ pre.Tokens[id] # NoToken
           /\ Tokens[id].total_supply > pre.Tokens[id].total_supply)
            => (Called("mint") /\ last.id = id /\ ByOwnerOf(id))
       /\ TotalBalance(State, id) > TotalBalance(pre, id)
            => (Called("mint") /\ last.id = id /\ ByOwnerOf(id))
       /\ \A a \in Accounts :
            Balances[id][a] > pre.Balances[id][a]
              => \/ Called("mint") /\ last.id = id /\ ByOwnerOf(id)
                 \/ last.op \in {"transfer", "transfer_from"} /\ last.id = id
                    /\ last.to = a

\* A mint of a non-zero amount that the sender of the call, who holds tokens
\* but does not own the token, was refused.
C7_Witness ==
  /\ Called("mint")
  /\ PreToken # NoToken
  /\ last.who # PreToken.owner
  /\ last.amount > 0
  /\ PreBalance(last.who) > 0
  /\ last.res = "NoPermission"
  /\ NoEffect

\* ------------------------------------------------------------------ C8
\* C8: mint and burn called with a token id that has no Token record both
\* fail with Unknown, whoever calls.
C8_MintBurnUnknown ==
  (last.op \in {"mint", "burn"} /\ PreToken = NoToken) => last.res = "Unknown"

\* ------------------------------------------------------------------ C9
\* the recorded create_token could pay the deposit and passed valid metadata
CreateAdmissible ==
  /\ pre.free[last.who] >= CreateTokenDeposit
  /\ Len(last.name) <= StringLimit
  /\ Len(last.symbol) <= StringLimit

\* C9: NextTokenId never decreases and only a successful create_token changes
\* it, by exactly one; the id a successful create_token returns is greater
\* than every id returned before and had no Token record; and a create_token
\* that finds NextTokenId at TokenIdMax fails, with NoAvailableTokenId when
\* the deposit and the metadata are in order, and stores no Token record.
C9_IdsMonotonic ==
  /\ Recorded => NextTokenId >= pre.NextTokenId
  /\ (Recorded /\ NextTokenId # pre.NextTokenId)
     => (Called("create_token") /\ last.res = "Ok")
  /\ \A i \in created : i < NextTokenId
  /\ (Called("create_token") /\ last.res = "Ok")
     => /\ NextTokenId = pre.NextTokenId + 1
        /\ last.id = pre.NextTokenId
        /\ \A i \in created : last.id > i
        /\ pre.Tokens[last.id] = NoToken
        /\ Tokens[last.id] # NoToken
        /\ \A i \in Ids \ {last.id} : Tokens[i] = pre.Tokens[i]
  /\ (Called("create_token") /\ pre.NextTokenId = TokenIdMax)
     => /\ last.res # "Ok"
        /\ CreateAdmissible => last.res = "NoAvailableTokenId"
        /\ Tokens = pre.Tokens
        /\ NextTokenId = pre.NextTokenId

\* Every id below TokenIdMax has been returned, two of them for the same
\* metadata, and one more admissible create_token was refused.
C9_Witness ==
  /\ Called("create_token")
  /\ created = 0 .. (TokenIdMax - 1)
  /\ \E i, j \in created :
       /\ i # j
       /\ Tokens[i].name = Tokens[j].name
       /\ Tokens[i].symbol = Tokens[j].symbol
  /\ CreateAdmissible
  /\ last.res = "NoAvailableTokenId"
  /\ Tokens = pre.Tokens

\* ----------------------------------------------------------------- C10
\* C10: a create_token that fails with BadMetadata or NoAvailableTokenId
\* leaves the caller's reserved deposit, NextTokenId and the token registry
\* as they were before the call.
C10_FailedCreateNoEffect ==
  (Called("create_token") /\ last.res \in {"BadMetadata", "NoAvailableTokenId"})
  => /\ reserved = pre.reserved
     /\ free = pre.free
     /\ NextTokenId = pre.NextTokenId
     /\ Tokens = pre.Tokens

\* ----------------------------------------------------------------- C15
\* everything stored under token id in the storage st
Namespace(st, id) ==
  [token |-> st.Tokens[id], balances |-> st.Balances[id],
   allowances |-> st.Allowances[id]]

\* C15: approve, transfer, transfer_from, mint and burn on token id i,
\* accepted or refused, leave every balance, every allowance, the
\* total_supply and the owner of every other token id as they were.
C15_NamespacesIndependent ==
  last.op \in {"approve", "transfer", "transfer_from", "mint", "burn"}
  => \A j \in Ids \ {last.id} : Namespace(State, j) = Namespace(pre, j)

\* A call changed something under one token while another token with a
\* supply, a holder and an allowance of its own existed.
C15_Witness ==
  /\ last.op \in {"approve", "transfer", "transfer_from", "mint", "burn"}
  /\ Namespace(State, last.id) # Namespace(pre, last.id)
  /\ \E j \in Ids \ {last.id} :
       /\ pre.Tokens[j] # NoToken
       /\ pre.Tokens[j].total_supply > 0
       /\ \E p \in Accounts \X Accounts : pre.Allowances[j][p] > 0

\* ----------------------------------------------------------------- C16
\* C16: a transfer applies both balance changes or neither.  It fails with
\* NumOverflow and changes nothing when the sender holds less than amount,
\* and when the recipient's balance plus amount exceeds BalanceMax (the
\* sender's balance is then what it was before the call).
C16_TransferAtomic ==
  Called("transfer")
  => /\ TransferStepFails => (last.res = "NumOverflow" /\ Balances = pre.Balances)
     /\ last.res # "Ok" => Balances = pre.Balances

\* ----------------------------------------------------------------- C19
\* owner, name, symbol and decimals of a Token record
Identity(t) ==
  [owner |-> t.owner, name |-> t.name, symbol |-> t.symbol, decimals |-> t.decimals]

\* C19: no call deletes a Token record or changes its owner, name, symbol or
\* decimals; a record starts with total_supply 0; and total_supply changes
\* only in a mint or burn on that id.
C19_TokenRecordStable ==
  Recorded => \A id \in Ids :
    /\ pre.Tokens[id] # NoToken
       => /\ Tokens[id] # NoToken
          /\ Identity(Tokens[id]) = Identity(pre.Tokens[id])
          /\ Tokens[id].total_supply # pre.Tokens[id].total_supply
             => (last.op \in {"mint", "burn"} /\ last.id = id /\ last.res = "Ok")
    /\ (pre.Tokens[id] = NoToken /\ Tokens[id] # NoToken)
       => /\ Called("create_token") /\ last.res = "Ok" /\ last.id = id
          /\ Tokens[id].total_supply = 0
          /\ Tokens[id].owner = last.who

\* The whole supply of a token was burnt and its record stayed.
C19_Witness ==
  /\ Called("burn")
  /\ last.res = "Ok"
  /\ last.amount > 0
  /\ Tokens[last.id] # NoToken
  /\ Tokens[last.id].total_supply = 0
  /\ Identity(Tokens[last.id]) = Identity(PreToken)

\* ----------------------------------------------------------------- C20
\* C20 as stated: in every reachable state the total_supply of every existing
\* token equals the sum of the balances under its id.
C20_SupplyConserved ==
  \A id \in Ids :
    Tokens[id] # NoToken => Tokens[id].total_supply = TotalBalance(State, id)

\* C20, amended: the total_supply of an existing token equals the sum of the
\* balances under its id as long as no mint has taken its total_supply past
\* BalanceMax; after such a mint the sum of its balances may differ from it.
C20_SupplyConservedUnsaturated ==
  \A id \in Ids \ saturated :
    Tokens[id] # NoToken => Tokens[id].total_supply = TotalBalance(State, id)

\* A mint that does not saturate adds the same amount to a holder and to the
\* total_supply of a token that already had a supply held by somebody else.
C20_Witness ==
  /\ Called("mint")
  /\ last.res = "Ok"
  /\ last.amount > 0
  /\ last.id \notin saturated
  /\ \A a \in Accounts : Balances[last.id][a] > 0
  /\ Tokens[last.id].total_supply = TotalBalance(State, last.id)

\* ----------------------------------------------------------------- C21
\* C21: for every token id, owner A and spender B, the amount the accepted
\* transfer_from calls of B have moved out of A's balance never exceeds the
\* amount the accepted approve calls of A have granted B, and the stored
\* (A, B) allowance never exceeds the granted amount less the moved amount.
C21_AllowanceBoundsSpending ==
  \A id \in Ids : \A p \in Accounts \X Accounts :
    /\ moved[id][p] <= granted[id][p]
    /\ Allowances[id][p] <= granted[id][p] - moved[id][p]

\* A spender has spent, in an accepted transfer_from to a third account, all
\* the owner had granted, after an earlier grant.
C21_Witness ==
  /\ Called("transfer_from")
  /\ last.res = "Ok"
  /\ last.amount > 0
  /\ last.from # last.who
  /\ last.from # last.to
  /\ Balances[last.id][last.from] = PreBalance(last.from) - last.amount
  /\ moved[last.id][<<last.from, last.who>>] = granted[last.id][<<last.from, last.who>>]
  /\ Allowances[last.id][<<last.from, last.who>>] = 0

\* ======================================================================
\* The non-fungible token precompile (precompiles/src/token_non_fungible.rs)
\* ======================================================================

\* -------------------------------------------------------- address codec
\* An address (H160) is a sequence of AddressLen bytes.
AddressLen == 20
\* bytes [0..4) hold the prefix
PrefixLen == 4
\* into_address writes the id as a u128 into bytes [4..20)
U128Len == 16
\* try_from_address reads a u32 from bytes [16..20)
U32Len == 4

NFT_PRECOMPILE_ADDRESS_PREFIX == <<1, 0, 0, 1>>

\* the big-endian bytes of n in a field of len bytes
RECURSIVE to_be_bytes(_, _)
to_be_bytes(n, len) ==
  IF len = 0 THEN <<>>
  ELSE Append(to_be_bytes(n \div ByteBase, len - 1), n % ByteBase)

\* the number a big-endian byte sequence holds
RECURSIVE from_be_bytes(_)
from_be_bytes(data) ==
  IF data = <<>> THEN 0
  ELSE from_be_bytes(SubSeq(data, 1, Len(data) - 1)) * ByteBase + data[Len(data)]

\* try_from_address that reads the id from the whole field into_address wrote
try_from_address_whole_field(address) ==
  LET prefix == SubSeq(address, 1, PrefixLen)
      id == SubSeq(address, PrefixLen + 1, AddressLen)
  IN IF prefix = NFT_PRECOMPILE_ADDRESS_PREFIX THEN from_be_bytes(id) ELSE None

try_from_address(address) ==
  LET prefix == SubSeq(address, 1, PrefixLen)
      id == SubSeq(address, AddressLen - U32Len + 1, AddressLen)
  IN IF prefix = NFT_PRECOMPILE_ADDRESS_PREFIX THEN from_be_bytes(id) ELSE None

into_address(id) ==
  NFT_PRECOMPILE_ADDRESS_PREFIX \o to_be_bytes(id, U128Len)

\* The ids the codec is given: the smallest ones, the ones around the
\* largest u32 and the largest u128.
CodecIds ==
  (0 .. NfIdMax)
    \cup {ByteBase ^ U32Len - 1, ByteBase ^ U32Len, ByteBase ^ U32Len + 1,
          ByteBase ^ U128Len - 1}

\* The addresses the codec and the precompile are given: the addresses of
\* CodecIds, and addresses whose prefix is not the reserved one (all bytes, or
\* the last byte alone).
Addresses ==
  {into_address(id) : id \in CodecIds}
    \cup {to_be_bytes(0, PrefixLen) \o to_be_bytes(id, U128Len) : id \in 0 .. NfIdMax}
    \cup {[into_address(id) EXCEPT ![PrefixLen] = 0] : id \in 0 .. NfIdMax}

\* ------------------------------------------------------ call payloads
\* A payload is its leading 4 bytes (sel: the name of the selector they are,
\* "unknown" when they are none of the table and not CREATE_SELECTOR, "short"
\* when the payload has fewer than 4 bytes) and the words after them (args).
\* A word is an address, an unsigned integer, the head of a byte string, or
\* "bad": a word no read accepts (an integer out of range, an offset outside
\* the payload).
Address(a) == [k |-> "address", v |-> a]
Uint(n) == [k |-> "uint", v |-> n]
BytesArg(b) == [k |-> "bytes", v |-> b]
BadWord == [k |-> "bad", v |-> 0]

\* enum Action
Action ==
  {"balanceOf", "ownerOf", "transferFrom", "mint", "burn", "name", "symbol",
   "tokenURI", "totalSupply", "tokenOfOwnerByIndex", "tokenByIndex"}

\* the kinds of the words each handler reads, in the order it reads them
Signature(sel) ==
  CASE sel = "balanceOf" -> <<"address">>
    [] sel = "ownerOf" -> <<"uint">>
    [] sel = "transferFrom" -> <<"address", "address", "uint">>
    [] sel = "mint" -> <<"address", "uint">>
    [] sel = "burn" -> <<"uint">>
    [] sel = "tokenURI" -> <<"uint">>
    [] sel = "tokenOfOwnerByIndex" -> <<"address", "uint">>
    [] sel = "tokenByIndex" -> <<"uint">>
    [] sel = "create" -> <<"uint", "bytes", "bytes", "bytes">>
    [] OTHER -> <<>>

\* EvmDataReader::new_skip_selector, expect_arguments(n) and the n reads of a
\* handler: the steps taken (the last one is the one that failed when ok is
\* FALSE) and the words read.
DecodeArgs(input, sig) ==
  LET n == Len(sig)
      head == <<"new_skip_selector", "expect_arguments">>
      bad == {i \in 1 .. n : i <= Len(input.args) /\ input.args[i].k # sig[i]}
  IN IF input.sel = "short"
     THEN [ok |-> FALSE, trace |-> <<"new_skip_selector">>, args |-> <<>>]
     ELSE IF Len(input.args) < n
     THEN [ok |-> FALSE, trace |-> head, args |-> <<>>]
     ELSE IF bad # {}
     THEN LET first == CHOOSE i \in bad : \A j \in bad : i <= j
          IN [ok |-> FALSE, trace |-> head \o [i \in 1 .. first |-> "read"],
              args |-> <<>>]
     ELSE [ok |-> TRUE, trace |-> head \o [i \in 1 .. n |-> "read"],
           args |-> [i \in 1 .. n |-> input.args[i].v]]

\* results of a call of the precompile
Declined == [kind |-> "None", value |-> None]
Succeed(v) == [kind |-> "Ok", value |-> v]
Fail(e) == [kind |-> "Err", value |-> e]
Panic == [kind |-> "Panic", value |-> None]

\* ------------------------------------------- non-fungible token ledger
pallet_exists(st, id) == id \in NfIds /\ st.Tokens[id] # NoNfToken

pallet_create_token(st, who, id, name, symbol, base_uri) ==
  IF id \notin NfIds \/ pallet_exists(st, id)
  THEN [st |-> st, res |-> "InvalidId"]
  ELSE [st |-> [st EXCEPT !.Tokens[id] =
                  [owner |-> who, name |-> name, symbol |-> symbol,
                   base_uri |-> base_uri]],
        res |-> "Ok"]

\* the items of token id that account holds, and all items of token id
ItemsOf(st, id, account) == {t \in Items : st.Owners[id][t] = account}
AllItems(st, id) == {t \in Items : st.Owners[id][t] # "none"}

\* the index-th smallest element of S, or 0 when S has no such element
ByIndex(S, index) ==
  IF \E t \in S : Cardinality({u \in S : u < t}) = index
  THEN CHOOSE t \in S : Cardinality({u \in S : u < t}) = index
  ELSE 0

pallet_balance_of(st, id, owner) == Cardinality(ItemsOf(st, id, owner))

\* "none" when the item has no owner
pallet_owner_of(st, id, token_id) ==
  IF token_id \in Items THEN st.Owners[id][token_id] ELSE "none"

pallet_transfer_from(st, who, id, from, to, token_id) ==
  IF pallet_owner_of(st, id, token_id) = "none"
  THEN [st |-> st, res |-> "TokenNonExistent"]
  ELSE IF pallet_owner_of(st, id, token_id) # from \/ who # from
  THEN [st |-> st, res |-> "NotTokenOwner"]
  ELSE [st |-> [st EXCEPT !.Owners[id][token_id] = to], res |-> "Ok"]

pallet_mint(st, who, id, to, token_id) ==
  IF st.Tokens[id].owner # who THEN [st |-> st, res |-> "NoPermission"]
  ELSE IF token_id \notin Items \/ pallet_owner_of(st, id, token_id) # "none"
  THEN [st |-> st, res |-> "TokenAlreadyMinted"]
  ELSE [st |-> [st EXCEPT !.Owners[id][token_id] = to], res |-> "Ok"]

pallet_burn(st, who, id, token_id) ==
  IF pallet_owner_of(st, id, token_id) = "none"
  THEN [st |-> st, res |-> "TokenNonExistent"]
  ELSE IF pallet_owner_of(st, id, token_id) # who
  THEN [st |-> st, res |-> "NotTokenOwner"]
  ELSE [st |-> [st EXCEPT !.Owners[id][token_id] = "none"], res |-> "Ok"]

pallet_token_name(st, id) == st.Tokens[id].name
pallet_token_symbol(st, id) == st.Tokens[id].symbol
pallet_token_uri(st, id, token_id) == <<st.Tokens[id].base_uri, token_id>>
pallet_total_supply(st, id) == Cardinality(AllItems(st, id))
pallet_token_by_index(st, id, index) == ByIndex(AllItems(st, id), index)
pallet_token_of_owner_by_index(st, id, owner, index) ==
  ByIndex(ItemsOf(st, id, owner), index)

\* ------------------------------------------------------------ handlers
\* A handle is the payload, the caller and whether the call context is
\* read-only.  A handler returns the ledger it leaves, the result of the call
\* and the steps it took (the ledger operation it invoked is the step named
\* after it).
Handled(st, out, trace) == [st |-> st, out |-> out, trace |-> trace]

\* RuntimeHelper::try_dispatch of a ledger call that returned r
Dispatched(st, r, d, step) ==
  Handled(r.st, IF r.res = "Ok" THEN Succeed(TRUE) ELSE Fail(r.res),
          Append(d.trace, step))

create(st, handle) ==
  LET d == DecodeArgs(handle.input, Signature("create")) IN
  IF ~d.ok THEN Handled(st, Fail("decode"), d.trace)
  ELSE Dispatched(st, pallet_create_token(st, handle.caller, d.args[1],
                                          d.args[2], d.args[3], d.args[4]),
                  d, "pallet_create_token")

balance_of(st, id, handle) ==
  LET d == DecodeArgs(handle.input, Signature("balanceOf")) IN
  IF ~d.ok THEN Handled(st, Fail("decode"), d.trace)
  ELSE Handled(st, Succeed(pallet_balance_of(st, id, d.args[1])),
               Append(d.trace, "pallet_balance_of"))

\* unwrap() of the owner the ledger returns panics when there is none
owner_of(st, id, handle) ==
  LET d == DecodeArgs(handle.input, Signature("ownerOf")) IN
  IF ~d.ok THEN Handled(st, Fail("decode"), d.trace)
  ELSE LET owner == pallet_owner_of(st, id, d.args[1]) IN
       Handled(st, IF owner = "none" THEN Panic ELSE Succeed(owner),
               Append(d.trace, "pallet_owner_of"))

precompile_transfer_from(st, id, handle) ==
  LET d == DecodeArgs(handle.input, Signature("transferFrom")) IN
  IF ~d.ok THEN Handled(st, Fail("decode"), d.trace)
  ELSE Dispatched(st, pallet_transfer_from(st, handle.caller, id, d.args[1],
                                           d.args[2], d.args[3]),
                  d, "pallet_transfer_from")

\* mint that dispatches to the caller, item 0, whatever the reads returned
precompile_mint_unchecked(st, id, handle) ==
  LET d == DecodeArgs(handle.input, Signature("mint"))
      to == IF d.ok THEN d.args[1] ELSE handle.caller
      token_id == IF d.ok THEN d.args[2] ELSE 0
  IN Dispatched(st, pallet_mint(st, handle.caller, id, to, token_id), d,
                "pallet_mint")

precompile_mint(st, id, handle) ==
  LET d == DecodeArgs(handle.input, Signature("mint")) IN
  IF ~d.ok THEN Handled(st, Fail("decode"), d.trace)
  ELSE Dispatched(st, pallet_mint(st, handle.caller, id, d.args[1], d.args[2]),
                  d, "pallet_mint")

precompile_burn(st, id, handle) ==
  LET d == DecodeArgs(handle.input, Signature("burn")) IN
  IF ~d.ok THEN Handled(st, Fail("decode"), d.trace)
  ELSE Dispatched(st, pallet_burn(st, handle.caller, id, d.args[1]),
                  d, "pallet_burn")

name(st, id, handle) ==
  Handled(st, Succeed(pallet_token_name(st, id)), <<"pallet_token_name">>)

symbol(st, id, handle) ==
  Handled(st, Succeed(pallet_token_symbol(st, id)), <<"pallet_token_symbol">>)

token_uri(st, id, handle) ==
  LET d == DecodeArgs(handle.input, Signature("tokenURI")) IN
  IF ~d.ok THEN Handled(st, Fail("decode"), d.trace)
  ELSE Handled(st, Succeed(pallet_token_uri(st, id, d.args[1])),
               Append(d.trace, "pallet_token_uri"))

precompile_total_supply(st, id, handle) ==
  Handled(st, Succeed(pallet_total_supply(st, id)), <<"pallet_total_supply">>)

token_by_index(st, id, handle) ==
  LET d == DecodeArgs(handle.input, Signature("tokenByIndex")) IN
  IF ~d.ok THEN Handled(st, Fail("decode"), d.trace)
  ELSE Handled(st, Succeed(pallet_token_by_index(st, id, d.args[1])),
               Append(d.trace, "pallet_token_by_index"))

token_of_owner_by_index(st, id, handle) ==
  LET d == DecodeArgs(handle.input, Signature("tokenOfOwnerByIndex")) IN
  IF ~d.ok THEN Handled(st, Fail("decode"), d.trace)
  ELSE Handled(st, Succeed(pallet_token_of_owner_by_index(st, id, d.args[1],
                                                          d.args[2])),
               Append(d.trace, "pallet_token_of_owner_by_index"))

\* ------------------------------------------------------------- execute
\* every selector is a View function
FunctionModifier_all_view(selector) == "View"

\* the modifier execute checks each selector against
FunctionModifier(selector) ==
  IF selector \in {"name", "symbol", "ownerOf", "totalSupply", "tokenURI",
                   "tokenOfOwnerByIndex", "tokenByIndex", "balanceOf"}
  THEN "View"
  ELSE "NonPayable"

\* handle.check_function_modifier: a View function wants a read-only call
\* context, a NonPayable function a state-changing one
check_function_modifier(handle, modifier) ==
  IF modifier = "View" THEN handle.is_static ELSE ~handle.is_static

\* the handler of a selector of the table
Handler(selector, st, id, handle) ==
  CASE selector = "name" -> name(st, id, handle)
    [] selector = "symbol" -> symbol(st, id, handle)
    [] selector = "tokenURI" -> token_uri(st, id, handle)
    [] selector = "totalSupply" -> precompile_total_supply(st, id, handle)
    [] selector = "tokenByIndex" -> token_by_index(st, id, handle)
    [] selector = "tokenOfOwnerByIndex" -> token_of_owner_by_index(st, id, handle)
    [] selector = "balanceOf" -> balance_of(st, id, handle)
    [] selector = "ownerOf" -> owner_of(st, id, handle)
    [] selector = "transferFrom" -> precompile_transfer_from(st, id, handle)
    [] selector = "mint" -> precompile_mint(st, id, handle)
    [] selector = "burn" -> precompile_burn(st, id, handle)

\* steps h took, after the steps before
After(before, h) == Handled(h.st, h.out, before \o h.trace)

execute_call(st, address, handle) ==
  LET non_fungible_token_id == try_from_address(address)
      selector == handle.input.sel
  IN IF non_fungible_token_id = None THEN Handled(st, Declined, <<>>)
     ELSE IF pallet_exists(st, non_fungible_token_id)
     THEN IF selector \notin Action
          THEN Handled(st, Fail("selector"), <<"pallet_exists", "read_selector">>)
          ELSE IF ~check_function_modifier(handle, FunctionModifier(selector))
          THEN Handled(st, Fail("modifier"),
                       <<"pallet_exists", "read_selector", "check_function_modifier">>)
          ELSE After(<<"pallet_exists", "read_selector", "check_function_modifier">>,
                     Handler(selector, st, non_fungible_token_id, handle))
     \* &input[0..4] of a payload of fewer than 4 bytes panics
     ELSE IF selector = "short" THEN Handled(st, Panic, <<"pallet_exists">>)
     ELSE IF selector = "create"
     THEN After(<<"pallet_exists">>, create(st, handle))
     ELSE Handled(st, Declined, <<"pallet_exists">>)

is_precompile_call(st, address) ==
  LET non_fungible_token_id == try_from_address(address) IN
  IF non_fungible_token_id # None THEN pallet_exists(st, non_fungible_token_id)
  ELSE FALSE

\* -------------------------------------------------------------- inputs
\* the words a call is given for an argument of a kind
ArgValues(kind) ==
  CASE kind = "address" -> {Address(a) : a \in Accounts}
    [] kind = "uint" -> {Uint(n) : n \in NfIds \cup Items}
    [] kind = "bytes" -> {BytesArg(Bytes(1))}

\* all well-formed argument lists of a signature
RECURSIVE ArgLists(_)
ArgLists(sig) ==
  IF sig = <<>> THEN {<<>>}
  ELSE {Append(x[1], x[2]) :
          x \in ArgLists(SubSeq(sig, 1, Len(sig) - 1)) \X ArgValues(sig[Len(sig)])}

\* one well-formed argument list of a signature
CanonArgs(sig) == CHOOSE args \in ArgLists(sig) : TRUE

\* The argument lists a selector is called with: the well-formed ones, one
\* with a word no read accepts at each position, and one that is a word short.
ArgInputs(sel) ==
  LET sig == Signature(sel)
      n == Len(sig)
  IN ArgLists(sig)
       \cup {[CanonArgs(sig) EXCEPT ![i] = BadWord] : i \in 1 .. n}
       \cup {SubSeq(CanonArgs(sig), 1, n - 1) : i \in 1 .. n}

Payloads ==
  {[sel |-> "unknown", args |-> <<>>], [sel |-> "short", args |-> <<>>]}
    \cup UNION {{[sel |-> sel, args |-> args] : args \in ArgInputs(sel)} :
                  sel \in Action \cup {"create"}}

\* ------------------------------------------------------------- actions
\* A run of the precompile is any number of calls that change the ledger
\* followed by one recorded call: dlast is the recorded call and dpre the
\* ledger it started from.
\* PrecompileSet::execute on the current ledger
execute ==
  /\ dlast = NoDispatch
  /\ \E address \in Addresses, input \in Payloads, caller \in Accounts,
        is_static \in BOOLEAN :
    LET handle == [input |-> input, caller |-> caller, is_static |-> is_static]
        r == execute_call(nft, address, handle)
    IN /\ nft' = r.st
       /\ \/ /\ r.st # nft
             /\ UNCHANGED <<dlast, dpre>>
          \/ /\ dlast' = [op |-> "execute", address |-> address,
                          id |-> try_from_address(address), input |-> input,
                          caller |-> caller, is_static |-> is_static,
                          out |-> r.out, trace |-> r.trace]
             /\ dpre' = nft
       /\ UNCHANGED fvars

\* PrecompileSet::is_precompile on the current ledger
is_precompile ==
  /\ dlast = NoDispatch
  /\ \E address \in Addresses :
    /\ dlast' = [NoDispatch EXCEPT !.op = "is_precompile", !.address = address,
                                   !.id = try_from_address(address),
                                   !.out = Succeed(is_precompile_call(nft, address))]
    /\ dpre' = nft
    /\ UNCHANGED <<nft, fvars>>

\* TokenIdConversion::into_address
convert_into_address ==
  /\ dlast = NoDispatch
  /\ \E id \in CodecIds :
    /\ dlast' = [NoDispatch EXCEPT !.op = "into_address", !.id = id,
                                   !.address = into_address(id)]
    /\ dpre' = nft
    /\ UNCHANGED <<nft, fvars>>

\* TokenIdConversion::try_from_address
convert_try_from_address ==
  /\ dlast = NoDispatch
  /\ \E address \in Addresses :
    /\ dlast' = [NoDispatch EXCEPT !.op = "try_from_address", !.address = address,
                                   !.id = try_from_address(address)]
    /\ dpre' = nft
    /\ UNCHANGED <<nft, fvars>>

NextDispatch ==
  \/ execute
  \/ is_precompile
  \/ convert_into_address
  \/ convert_try_from_address

SpecDispatch == Init /\ [][NextDispatch]_vars

\* the precompile never leaves the ledger or the record of a call ill-formed
DispatchTypeOK ==
  /\ dlast.op \in {"none", "execute", "is_precompile", "into_address", "try_from_address"}
  /\ dlast.out.kind \in {"None", "Ok", "Err", "Panic"}
  /\ \A i \in NfIds : \A t \in Items : nft.Owners[i][t] \in Accounts \cup {"none"}

\* ------------------------------------------------- the recorded call
Executed == dlast.op = "execute"
\* the handle of the recorded call
DHandle ==
  [input |-> dlast.input, caller |-> dlast.caller, is_static |-> dlast.is_static]
\* the target address carries the prefix, and its id had a Token record
Prefixed ==
  SubSeq(dlast.address, 1, PrefixLen) = NFT_PRECOMPILE_ADDRESS_PREFIX
TokenExisted == Prefixed /\ pallet_exists(dpre, dlast.id)
\* the ledger operations and queries a handler invokes
NfLedgerOps ==
  {"pallet_create_token", "pallet_balance_of", "pallet_owner_of",
   "pallet_transfer_from", "pallet_mint", "pallet_burn", "pallet_token_name",
   "pallet_token_symbol", "pallet_token_uri", "pallet_total_supply",
   "pallet_token_by_index", "pallet_token_of_owner_by_index"}
IsLedgerOp(step) == step \in NfLedgerOps
\* the ledger operations the recorded call invoked, in order
Invoked == SelectSeq(dlast.trace, IsLedgerOp)

\* ----------------------------------------------------------------- C11
\* C11: the address codec is a bijection between token ids and prefixed
\* addresses: decoding the address of an id returns that id, no two different
\* prefixed addresses decode to the same id, and an address whose first 4
\* bytes are not the prefix decodes to "not a token address".
C11_CodecBijective ==
  /\ dlast.op = "into_address" => try_from_address(dlast.address) = dlast.id
  /\ (dlast.op = "try_from_address" /\ Prefixed)
     => /\ dlast.id # None
        /\ \A other \in Addresses \ {dlast.address} :
             try_from_address(other) # dlast.id
  /\ (dlast.op = "try_from_address" /\ ~Prefixed) => dlast.id = None

\* ----------------------------------------------------------------- C12
\* C12: a call to a prefixed address whose id has no Token record invokes
\* create when the payload starts with the create selector and is otherwise
\* declined (None) without failing or aborting, also when the payload is
\* shorter than 4 bytes; a call to an address without the prefix is declined
\* with no ledger access.
C12_NoTokenCreatesOrDeclines ==
  Executed
  => /\ (Prefixed /\ ~TokenExisted)
        => IF dlast.input.sel = "create"
           THEN /\ dlast.out = create(dpre, DHandle).out
                /\ nft = create(dpre, DHandle).st
           ELSE dlast.out = Declined /\ nft = dpre
     /\ ~Prefixed => (dlast.out = Declined /\ dlast.trace = <<>> /\ nft = dpre)

\* ----------------------------------------------------------------- C13
\* the selectors the selector table declares read-only
ReadOnlySelectors ==
  {"balanceOf", "ownerOf", "name", "symbol", "tokenURI", "totalSupply",
   "tokenOfOwnerByIndex", "tokenByIndex"}

C14_CreateRegistersAddressedId ==
  (Executed /\ Prefixed /\ ~TokenExisted /\ dlast.input.sel = "create"
     /\ dlast.out.kind = "Ok")
  => /\ pallet_exists(nft, dlast.id)
     /\ is_precompile_call(nft, dlast.address)
     /\ \A a \in Accounts :
          execute_call(nft, dlast.address,
                       [input |-> [sel |-> "balanceOf", args |-> <<Address(a)>>],
                        caller |-> dlast.caller, is_static |-> TRUE]).out
            = Succeed(0)

\* ----------------------------------------------------------------- C17
\* the steps every handler of a selector takes before its ledger operation
Validation(sel) ==
  LET n == Len(Signature(sel)) IN
  (IF sel = "create" THEN <<"pallet_exists">>
   ELSE <<"pallet_exists", "read_selector", "check_function_modifier">>)
    \o (IF n = 0 THEN <<>>
        ELSE <<"new_skip_selector", "expect_arguments">> \o [i \in 1 .. n |-> "read"])

\* the payload has an unrecognized selector, or is short or malformed
BadPayload ==
  LET sig == Signature(dlast.input.sel) IN
  \/ dlast.input.sel \in {"unknown", "short"}
  \/ Len(dlast.input.args) < Len(sig)
  \/ \E i \in 1 .. Len(sig) : dlast.input.args[i].k # sig[i]

LedgerReportedError ==
  LET a == [i \in 1 .. Len(dlast.input.args) |-> dlast.input.args[i].v]
      op == Invoked[1]
      who == dlast.caller
  IN CASE op = "pallet_create_token"
            -> pallet_create_token(dpre, who, a[1], a[2], a[3], a[4]).res # "Ok"
       [] op = "pallet_transfer_from"
            -> pallet_transfer_from(dpre, who, dlast.id, a[1], a[2], a[3]).res # "Ok"
       [] op = "pallet_mint"
            -> pallet_mint(dpre, who, dlast.id, a[1], a[2]).res # "Ok"
       [] op = "pallet_burn"
            -> pallet_burn(dpre, who, dlast.id, a[1]).res # "Ok"
       [] op = "pallet_owner_of"
            -> pallet_owner_of(dpre, dlast.id, a[1]) = "none"
       [] OTHER -> FALSE

\* C18: whenever the ledger operation or query a call invoked reports an
\* error, the call returns a failure: it does not abort, and it does not
\* return a success output.
C18_LedgerErrorsSurface ==
  (Executed /\ Invoked # <<>>)
  => /\ dlast.out.kind # "Panic"
     /\ LedgerReportedError => dlast.out.kind = "Err"

\* ----------------------------------------------------------------- C22
\* C22: is_precompile(addr) is true exactly when addr carries the prefix and
\* the id it decodes to has a Token record, and execute on such an address
\* never declines: whatever the payload, it returns a success or a failure
\* result.
C22_IsPrecompileAgreesWithExecute ==
  /\ dlast.op = "is_precompile"
     => (dlast.out.value <=> (Prefixed /\ dlast.id # None /\ pallet_exists(dpre, dlast.id)))
  /\ (Executed /\ is_precompile_call(dpre, dlast.address))
     => dlast.out.kind \in {"Ok", "Err"}

====
